---- MODULE Spec2Model ----
(***************************************************************************)
(* Model of convert.py: an interactive shell (main) that asks for two      *)
(* paths and runs run_ffmpeg_with_progress, which probes the duration with *)
(* ffprobe, starts ffmpeg, reads its stderr line by line, renders a        *)
(* progress bar for every time= token and reports the outcome.             *)
(*                                                                         *)
(* Strings are tuples of one-character strings.  Seconds are counted in    *)
(* units of 10^-FracDigits second, so that every quotient of the renderer  *)
(* is a quotient of two integers; the rounding error of binary floating    *)
(* point is not modelled.  The probe's numeric outputs are finite decimal  *)
(* numbers (what ffprobe prints for format=duration, or "N/A").            *)
(***************************************************************************)
EXTENDS FiniteSets, Integers, Sequences, TLC

\* ------------------------------------------------------------------ bounds
\* lines the encoder writes to its diagnostic stream in one run
MaxLines == 3

\* invalid answers accepted at the input-path prompt before the model stops
\* offering more of them
MaxPrompts == 2

\* fraction digits kept by the integer representation of seconds
FracDigits == 2

\* length of the longest string tried against time_pattern as a whole
MaxTimecodeLen == 6

\* ------------------------------------------------------- program constants
MaxBarWidth == 50

BarMargin == 20

FallbackWidth == 80

SpinnerFrames == 4

InterruptExit == 1

\* exit status of the interpreter after an uncaught exception (traceback)
TracebackExit == 1

\* exit status seen by the shell when the interpreter dies of an uncaught
\* KeyboardInterrupt (128 + SIGINT)
SigintExit == 130

\* ------------------------------------------------------------ option type
None == <<>>

Some(v) == <<v>>

\* ---------------------------------------------------------------- strings
Cancel == <<"c","a","n","c","e","l">>

Unset == <<"<unset>">>

Upper == <<"A","B","C","E","L","N">>

LowerOf == <<"a","b","c","e","l","n">>

\* str.lower() on one character
LowerChar(c) ==
  IF \E i \in DOMAIN Upper : Upper[i] = c
    THEN LowerOf[CHOOSE i \in DOMAIN Upper : Upper[i] = c]
    ELSE c

\* the letter case is left as typed
Lower_AsTyped(s) == s

\* str.lower()
Lower(s) == [i \in DOMAIN s |-> LowerChar(s[i])]

IsSpace(c) == c = " "

RECURSIVE LStrip(_)
LStrip(s) == IF s # <<>> /\ IsSpace(Head(s)) THEN LStrip(Tail(s)) ELSE s

RECURSIVE RStrip(_)
RStrip(s) ==
  IF s # <<>> /\ IsSpace(s[Len(s)]) THEN RStrip(SubSeq(s, 1, Len(s) - 1)) ELSE s

\* the answer is taken as typed
Strip_AsTyped(s) == s

\* str.strip()
Strip(s) == RStrip(LStrip(s))

\* the first part of s up to (not including) the first ch, or all of s
RECURSIVE UpTo(_, _)
UpTo(s, ch) ==
  IF s = <<>> \/ Head(s) = ch THEN <<>> ELSE <<Head(s)>> \o UpTo(Tail(s), ch)

\* str.split(ch)
RECURSIVE Split(_, _)
Split(s, ch) ==
  LET first == UpTo(s, ch)
  IN IF Len(first) = Len(s)
       THEN <<first>>
       ELSE <<first>> \o Split(SubSeq(s, Len(first) + 2, Len(s)), ch)

Digits == <<"0","1","2","3","4","5","6","7","8","9">>

DigitVal(c) == (CHOOSE i \in DOMAIN Digits : Digits[i] = c) - 1

\* int() on a string of decimal digits
RECURSIVE ParseInt(_)
ParseInt(s) ==
  IF s = <<>> THEN 0
  ELSE 10 * ParseInt(SubSeq(s, 1, Len(s) - 1)) + DigitVal(s[Len(s)])

RECURSIVE Pow10(_)
Pow10(n) == IF n = 0 THEN 1 ELSE 10 * Pow10(n - 1)

\* one second, in the model's units
Unit == Pow10(FracDigits)

\* the fraction digits are read as a whole number of the smallest unit
FracValue_AsCount(millis) == ParseInt(millis)

\* float("0." + millis), in the model's units (millis has at most FracDigits
\* digits in the inputs of the model)
FracValue(millis) == ParseInt(millis) * Pow10(FracDigits - Len(millis))

\* seconds_from_timecode, in the model's units
seconds_from_timecode(time_str) ==
  LET parts == Split(time_str, ":")
      h == parts[1]
      m == parts[2]
      s == parts[3]
      sp == Split(s, ".")
      secs == sp[1]
      millis == IF Len(sp) > 1 THEN FracValue(sp[2]) ELSE 0
  IN (ParseInt(h) * 3600 + ParseInt(m) * 60 + ParseInt(secs)) * Unit + millis

IsDigit(c) == \E i \in DOMAIN Digits : Digits[i] = c

\* int(x) succeeds: x is a non-empty string of digits
IsInt(x) == x # <<>> /\ \A i \in DOMAIN x : IsDigit(x[i])

\* seconds_from_timecode(time_str) returns: the unpacking of split(":")
\* finds three parts, the unpacking of split(".") finds two, int() finds
\* digits, and float("0." + millis) finds digits or nothing after the point
Parses(time_str) ==
  LET parts == Split(time_str, ":")
  IN /\ Len(parts) = 3
     /\ IsInt(parts[1])
     /\ IsInt(parts[2])
     /\ LET sp == Split(parts[3], ".")
        IN IF Len(sp) = 1 THEN IsInt(parts[3])
           ELSE /\ Len(sp) = 2
                /\ IsInt(sp[1])
                /\ \A i \in DOMAIN sp[2] : IsDigit(sp[2][i])

\* the number of digits of s from position i on
RECURSIVE DigitRun(_, _)
DigitRun(s, i) ==
  IF i <= Len(s) /\ IsDigit(s[i]) THEN 1 + DigitRun(s, i + 1) ELSE 0

\* the length of the match of \d+:\d+:\d+(?:\.\d+)? that starts at position
\* j of s, or 0 when there is none (digits and separators are disjoint, so
\* the greedy match is the only one)
TimeMatchLen(s, j) ==
  LET n1 == DigitRun(s, j)
      p2 == j + n1
      n2 == DigitRun(s, p2 + 1)
      p3 == p2 + 1 + n2
      n3 == DigitRun(s, p3 + 1)
      p4 == p3 + 1 + n3
      n4 == IF p4 <= Len(s) /\ s[p4] = "." THEN DigitRun(s, p4 + 1) ELSE 0
  IN IF /\ n1 > 0
        /\ p2 <= Len(s) /\ s[p2] = ":"
        /\ n2 > 0
        /\ p3 <= Len(s) /\ s[p3] = ":"
        /\ n3 > 0
       THEN (p4 - j) + (IF n4 > 0 THEN 1 + n4 ELSE 0)
       ELSE 0

TimeToken == <<"t","i","m","e","=">>

\* the text "time=" stands at position i of s
TokenAt(s, i) ==
  /\ i + Len(TimeToken) - 1 <= Len(s)
  /\ SubSeq(s, i, i + Len(TimeToken) - 1) = TimeToken

\* the pattern matches whatever follows "time=" up to the next blank
time_pattern_search_Loose(line) ==
  LET hits == { i \in DOMAIN line : TokenAt(line, i) }
  IN IF hits = {} THEN None
     ELSE LET i == CHOOSE k \in hits : \A h \in hits : k <= h
          IN Some(UpTo(SubSeq(line, i + Len(TimeToken), Len(line)), " "))

\* time_pattern.search(line): group 1 of the leftmost match, or None
time_pattern_search(line) ==
  LET hits == { i \in DOMAIN line :
                  TokenAt(line, i) /\ TimeMatchLen(line, i + Len(TimeToken)) > 0 }
  IN IF hits = {} THEN None
     ELSE LET i == CHOOSE k \in hits : \A h \in hits : k <= h
              j == i + Len(TimeToken)
          IN Some(SubSeq(line, j, j + TimeMatchLen(line, j) - 1))

\* ------------------------------------------------------------- arithmetic
Min(a, b) == IF a < b THEN a ELSE b

\* round(n / d) for d > 0, as Python 3 rounds: to nearest, ties to even
RoundHalfEven(n, d) ==
  LET q == n \div d
      r == n % d
  IN IF 2 * r < d THEN q
     ELSE IF 2 * r > d THEN q + 1
     ELSE IF q % 2 = 0 THEN q ELSE q + 1

\* ------------------------------------------------------------ environment
\* what the user may type at a prompt
Inputs ==
  { Cancel,
    <<"C","A","N","C","E","L">>,
    <<"C","a","n","c","e","L">>,
    <<" ","c","a","n","c","e","l"," ">>,
    <<"a">>,
    <<"b">>,
    <<>> }

\* the regular files that exist
ExistingFiles == { <<"a">> }

\* every path passes
isfile_Any(p) == TRUE

\* os.path.isfile
isfile(p) == p \in ExistingFiles

\* what ffprobe may do once started: exit non-zero, or exit 0 having printed
\* nothing, only white space, text that is no number ("N/A"), or a number
ProbeResults ==
  { [exit |-> 1, out |-> "none", val |-> 0],
    [exit |-> 0, out |-> "empty", val |-> 0],
    [exit |-> 0, out |-> "blank", val |-> 0],
    [exit |-> 0, out |-> "malformed", val |-> 0],
    [exit |-> 0, out |-> "number", val |-> 0],
    [exit |-> 0, out |-> "number", val |-> 0 - 1 * Unit],
    [exit |-> 0, out |-> "number", val |-> 60 * Unit] }

\* the timecodes the encoder may print after "time="
TimeCodes ==
  { <<"0","0",":","0","0",":","3","0">>,
    <<"0","0",":","0","2",":","3","0",".","5">> }

\* diagnostic lines that carry no timecode
PlainLines ==
  { <<"f","p","s","=","3","0">>,
    <<"t","i","m","e","=","N","/","A"," ","x">> }

\* the diagnostic lines the encoder may write
Lines ==
  PlainLines \cup { <<"q","=","1"," ">> \o TimeToken \o tc \o <<" ","x">> : tc \in TimeCodes }

\* exit codes of the encoder when it ends by itself
ExitCodes == { 0, 2 }

\* columns reported by shutil.get_terminal_size() (always at least 1), or
\* None when the call raises
TerminalSizes == { Some(w) : w \in { 1, 20, 45, 80 } } \cup { None }

\* ------------------------------------------------------------------ state
VARIABLES
  pc,                  \* position of the program
  input_path,          \* main: input_path
  output_path,         \* main: output_path
  last_input,          \* the raw text of the latest answer to a prompt
  prompts,             \* invalid answers given at the input-path prompt
  runs,                \* calls of run_ffmpeg_with_progress
  total_duration,      \* run_ffmpeg_with_progress: total_duration
  probe_outcome,       \* what the started ffprobe did, once it has ended
  prober_starts,       \* ffprobe subprocesses started
  encoder_starts,      \* ffmpeg subprocesses started
  proc,                \* the encoder: "none", "running" or "exited"
  exit_code,           \* the exit code of the encoder, once it has exited
  returncode,          \* process.returncode as the program knows it
  stderr_buf,          \* lines written to the pipe and not yet read
  stderr_open,         \* the encoder still holds its end of the pipe
  emitted,             \* lines the encoder has written
  terminate_requested, \* process.terminate() was called
  polled_running,      \* an empty read found the encoder still running
  terminal_width,
  bar_width,
  spinner_index,
  current_sec,         \* the latest parsed tick
  render_calls,        \* calls of draw_progress
  last_render,         \* what the latest call of draw_progress drew
  final_drawn,         \* the call of draw_progress after the loop was made
  reports,             \* status messages printed, in order
  exit_status,         \* exit status of the program, once it has exited
  uncaught,            \* the exception that ended the program, or "none"
  raised_in,           \* the function that raised it
  interrupt_at,        \* position at which the interrupt arrived
  tc_str,              \* the string last given to seconds_from_timecode alone
  tc_expect,           \* the seconds its writer meant, when known
  tc_result            \* what seconds_from_timecode made of it

shellVars == <<input_path, output_path, last_input, prompts, runs>>

probeVars == <<total_duration, probe_outcome, prober_starts>>

procVars ==
  <<encoder_starts, proc, exit_code, returncode, stderr_buf, stderr_open,
    emitted, terminate_requested, polled_running>>

renderVars ==
  <<terminal_width, bar_width, spinner_index, current_sec, render_calls,
    last_render, final_drawn>>

exitVars == <<exit_status, uncaught, raised_in>>

tcVars == <<tc_str, tc_expect, tc_result>>

mainVars ==
  <<pc, shellVars, probeVars, procVars, renderVars, reports, exitVars,
    interrupt_at>>

vars == <<mainVars, tcVars>>

Init ==
  /\ pc = "prompt_in"
  /\ input_path = Unset
  /\ output_path = Unset
  /\ last_input = Unset
  /\ prompts = 0
  /\ runs = 0
  /\ total_duration = None
  /\ probe_outcome = None
  /\ prober_starts = 0
  /\ encoder_starts = 0
  /\ proc = "none"
  /\ exit_code = None
  /\ returncode = None
  /\ stderr_buf = <<>>
  /\ stderr_open = FALSE
  /\ emitted = 0
  /\ terminate_requested = FALSE
  /\ polled_running = FALSE
  /\ terminal_width = None
  /\ bar_width = None
  /\ spinner_index = None
  /\ current_sec = None
  /\ render_calls = 0
  /\ last_render = None
  /\ final_drawn = FALSE
  /\ reports = <<>>
  /\ exit_status = None
  /\ uncaught = "none"
  /\ raised_in = "none"
  /\ interrupt_at = None
  /\ tc_str = None
  /\ tc_expect = None
  /\ tc_result = None

\* the program ends: sys.exit(status), return from main, or an exception
\* that nothing catches
Exits(status, exc, fn) ==
  /\ pc' = "exited"
  /\ exit_status' = Some(status)
  /\ uncaught' = exc
  /\ raised_in' = fn

\* ------------------------------------------------------------------ main
\* one answer at the input-path prompt
PromptInput(s) ==
  /\ UNCHANGED tcVars
  /\ pc = "prompt_in"
  /\ last_input' = s
  /\ input_path' = Strip(s)
  /\ IF Lower(Strip(s)) = Cancel
       THEN /\ reports' = Append(reports, "Process canceled.")
            /\ Exits(0, "none", "none")
            /\ UNCHANGED prompts
       ELSE IF isfile(Strip(s))
         THEN /\ pc' = "prompt_out"
              /\ UNCHANGED <<reports, exitVars, prompts>>
         ELSE /\ prompts < MaxPrompts
              /\ prompts' = prompts + 1
              /\ reports' = Append(reports, "File does not exist.")
              /\ UNCHANGED <<pc, exitVars>>
  /\ UNCHANGED <<output_path, runs, probeVars, procVars, renderVars,
                 interrupt_at>>

\* the one answer at the output-path prompt
PromptOutput(s) ==
  /\ UNCHANGED tcVars
  /\ pc = "prompt_out"
  /\ last_input' = s
  /\ output_path' = Strip(s)
  /\ IF Lower(Strip(s)) = Cancel
       THEN /\ reports' = Append(reports, "Process canceled.")
            /\ Exits(0, "none", "none")
            /\ UNCHANGED runs
       ELSE /\ pc' = "probe"
            /\ runs' = runs + 1
            /\ UNCHANGED <<reports, exitVars>>
  /\ UNCHANGED <<input_path, prompts, probeVars, procVars, renderVars,
                 interrupt_at>>

\* ---------------------------------------------------- get_video_duration
\* what get_video_duration does with the outcome r of a started ffprobe:
\* the exception it lets through ("none" if it returns) and the value it
\* returns.  check=True turns a non-zero exit into CalledProcessError, the
\* one exception the function catches; float() of text that is no number
\* raises ValueError.
get_video_duration(r) ==
  IF r.exit # 0 THEN [raises |-> "none", value |-> None]
  ELSE IF r.out \in { "empty", "blank" } THEN [raises |-> "none", value |-> None]
  ELSE IF r.out = "number" THEN [raises |-> "none", value |-> Some(r.val)]
  ELSE [raises |-> "ValueError", value |-> None]

\* ---------------------------------------------- run_ffmpeg_with_progress
\* only a number that is not positive is refused
DurationUnusable_NumbersOnly(d) == d # None /\ d[1] <= 0

\* only an absent duration is refused
DurationUnusable_AbsentOnly(d) == d = None

\* not total_duration or total_duration <= 0
DurationUnusable(d) == d = None \/ d[1] = 0 \/ d[1] <= 0

\* subprocess.run starts ffprobe, or fails to find the executable:
\* FileNotFoundError is no CalledProcessError and passes the except clause
ProbeStart ==
  /\ UNCHANGED tcVars
  /\ pc = "probe"
  /\ \E found \in BOOLEAN :
       IF found
         THEN /\ prober_starts' = prober_starts + 1
              /\ pc' = "probing"
              /\ UNCHANGED exitVars
         ELSE /\ Exits(TracebackExit, "FileNotFoundError", "get_video_duration")
              /\ UNCHANGED prober_starts
  /\ UNCHANGED <<shellVars, total_duration, probe_outcome, procVars,
                 renderVars, reports, interrupt_at>>

\* ffprobe ends with outcome r; get_video_duration returns or raises, and
\* the orchestrator either gives up or announces the conversion
ProbeFinish(r) ==
  /\ UNCHANGED tcVars
  /\ pc = "probing"
  /\ probe_outcome' = Some(r)
  /\ LET res == get_video_duration(r)
     IN IF res.raises # "none"
          THEN /\ Exits(TracebackExit, res.raises, "get_video_duration")
               /\ UNCHANGED <<total_duration, reports>>
          ELSE /\ total_duration' = res.value
               /\ IF DurationUnusable(res.value)
                    THEN /\ reports' =
                              Append(reports, "Could not determine video duration.")
                         /\ Exits(0, "none", "none")
                    ELSE /\ reports' = Append(reports, "Converting.")
                         /\ pc' = "popen"
                         /\ UNCHANGED exitVars
  /\ UNCHANGED <<shellVars, prober_starts, procVars, renderVars, interrupt_at>>

\* subprocess.Popen starts ffmpeg (the encoder is taken to be installed
\* wherever the prober is)
Popen ==
  /\ UNCHANGED tcVars
  /\ pc = "popen"
  /\ encoder_starts' = encoder_starts + 1
  /\ proc' = "running"
  /\ stderr_open' = TRUE
  /\ pc' = "setup"
  /\ UNCHANGED <<shellVars, probeVars, exit_code, returncode, stderr_buf,
                 emitted, terminate_requested, polled_running, renderVars,
                 reports, exitVars, interrupt_at>>

\* min(50, terminal_width - 20)
BarWidth(w) == Min(MaxBarWidth, w - BarMargin)

\* the terminal width is read once, the spinner starts at frame 0
Setup(ts) ==
  /\ UNCHANGED tcVars
  /\ pc = "setup"
  /\ LET w == IF ts = None THEN FallbackWidth ELSE ts[1]
     IN /\ terminal_width' = Some(w)
        /\ bar_width' = Some(BarWidth(w))
  /\ spinner_index' = Some(0)
  /\ pc' = "read"
  /\ UNCHANGED <<shellVars, probeVars, procVars, current_sec, render_calls,
                 last_render, final_drawn, reports, exitVars, interrupt_at>>

\* the quotient is not clamped
Progress_Unclamped(sec, total) == <<sec, total>>

\* min(current_sec / total, 1.0) as a pair numerator, denominator
Progress(sec, total) == IF sec > total THEN <<1, 1>> ELSE <<sec, total>>

\* the spinner skips a frame
NextSpinner_Skip(i) == (i + 2) % SpinnerFrames

\* (spinner_index + 1) % len(spinner_frames)
NextSpinner(i) == (i + 1) % SpinnerFrames

\* "#" * n and "-" * n: a negative count gives the empty string
Repeat(n) == IF n < 0 THEN 0 ELSE n

\* what draw_progress(sec) computes and writes
Drawn(sec) ==
  LET progress == Progress(sec, total_duration[1])
      filled_length == RoundHalfEven(bar_width[1] * progress[1], progress[2])
  IN [ elapsed |-> sec,
       progress |-> progress,
       filled_length |-> filled_length,
       unfilled_length |-> bar_width[1] - filled_length,
       hashes |-> Repeat(filled_length),
       dashes |-> Repeat(bar_width[1] - filled_length),
       percent |-> RoundHalfEven(progress[1] * 100, progress[2]),
       spinner |-> spinner_index[1] ]

\* draw_progress(sec)
draw_progress(sec) ==
  /\ last_render' = Some(Drawn(sec))
  /\ render_calls' = render_calls + 1
  /\ spinner_index' = Some(NextSpinner(spinner_index[1]))

\* readline returns a line; a time= token on it is parsed and drawn.  An
\* exception of seconds_from_timecode would pass the except clause, which
\* names KeyboardInterrupt only.
ReadLine ==
  /\ UNCHANGED tcVars
  /\ pc = "read"
  /\ stderr_buf # <<>>
  /\ stderr_buf' = Tail(stderr_buf)
  /\ LET match == time_pattern_search(Head(stderr_buf))
     IN IF match = None
          THEN UNCHANGED <<pc, current_sec, last_render, render_calls,
                           spinner_index, exitVars>>
          ELSE IF Parses(match[1])
            THEN /\ current_sec' = Some(seconds_from_timecode(match[1]))
                 /\ draw_progress(seconds_from_timecode(match[1]))
                 /\ UNCHANGED <<pc, exitVars>>
            ELSE /\ Exits(TracebackExit, "ValueError", "seconds_from_timecode")
                 /\ UNCHANGED <<current_sec, last_render, render_calls,
                                spinner_index>>
  /\ UNCHANGED <<shellVars, probeVars, encoder_starts, proc, exit_code,
                 returncode, stderr_open, emitted, terminate_requested,
                 polled_running, terminal_width, bar_width, final_drawn,
                 reports, interrupt_at>>

\* the loop breaks on every empty read
EncoderGone_NotAsked(p) == TRUE

\* process.poll() is not None
EncoderGone(p) == p = "exited"

\* readline returns nothing and poll() finds the encoder gone: break
ReadEnd ==
  /\ UNCHANGED tcVars
  /\ pc = "read"
  /\ stderr_buf = <<>>
  /\ ~stderr_open
  /\ EncoderGone(proc)
  /\ returncode' = exit_code
  /\ pc' = "wait"
  /\ UNCHANGED <<shellVars, probeVars, encoder_starts, proc, exit_code,
                 stderr_buf, stderr_open, emitted, terminate_requested,
                 polled_running, renderVars, reports, exitVars, interrupt_at>>

\* readline returns nothing and poll() finds the encoder running: continue
ReadPoll ==
  /\ UNCHANGED tcVars
  /\ pc = "read"
  /\ stderr_buf = <<>>
  /\ ~stderr_open
  /\ ~EncoderGone(proc)
  /\ polled_running' = TRUE
  /\ UNCHANGED <<pc, shellVars, probeVars, encoder_starts, proc, exit_code,
                 returncode, stderr_buf, stderr_open, emitted,
                 terminate_requested, renderVars, reports, exitVars,
                 interrupt_at>>

\* process.wait() returns
Wait ==
  /\ UNCHANGED tcVars
  /\ pc = "wait"
  /\ proc = "exited"
  /\ returncode' = exit_code
  /\ pc' = "final"
  /\ UNCHANGED <<shellVars, probeVars, encoder_starts, proc, exit_code,
                 stderr_buf, stderr_open, emitted, terminate_requested,
                 polled_running, renderVars, reports, exitVars, interrupt_at>>

\* the last call repeats the latest tick
FinalElapsed_LatestTick(total, cur) == IF cur = None THEN 0 ELSE cur[1]

\* the argument of the last call of draw_progress
FinalElapsed(total, cur) == total[1]

\* the bar is completed only when the encoder succeeded
FinalRender_OnSuccess ==
  /\ UNCHANGED tcVars
  /\ pc = "final"
  /\ IF returncode = Some(0)
       THEN /\ draw_progress(FinalElapsed(total_duration, current_sec))
            /\ final_drawn' = TRUE
       ELSE UNCHANGED <<last_render, render_calls, spinner_index, final_drawn>>
  /\ pc' = "report"
  /\ UNCHANGED <<shellVars, probeVars, procVars, terminal_width, bar_width,
                 current_sec, reports, exitVars, interrupt_at>>

\* draw_progress(total_duration) and the end of the line
FinalRender ==
  /\ UNCHANGED tcVars
  /\ pc = "final"
  /\ draw_progress(FinalElapsed(total_duration, current_sec))
  /\ final_drawn' = TRUE
  /\ pc' = "report"
  /\ UNCHANGED <<shellVars, probeVars, procVars, terminal_width, bar_width,
                 current_sec, reports, exitVars, interrupt_at>>

\* the exit code is reported; the function and main return
Report ==
  /\ UNCHANGED tcVars
  /\ pc = "report"
  /\ reports' = Append(reports, IF returncode = Some(0)
                                  THEN "Conversion completed successfully!"
                                  ELSE "Conversion failed.")
  /\ Exits(0, "none", "none")
  /\ UNCHANGED <<shellVars, probeVars, procVars, renderVars, interrupt_at>>

\* the try block ends before process.wait()
CaughtByTry_ReadOnly(p) == p \in { "read" }

\* the positions inside the try block of run_ffmpeg_with_progress
CaughtByTry(p) == p \in { "read", "wait" }

\* Ctrl+C.  Inside the try block the handler terminates the encoder, prints
\* and exits with status 1; anywhere else KeyboardInterrupt ends the program
\* with a traceback.
Interrupt ==
  /\ UNCHANGED tcVars
  /\ pc # "exited"
  /\ interrupt_at' = Some(pc)
  /\ IF CaughtByTry(pc)
       THEN /\ terminate_requested' = TRUE
            /\ reports' = Append(reports, "Process canceled by user.")
            /\ Exits(InterruptExit, "none", "none")
       ELSE /\ Exits(SigintExit, "KeyboardInterrupt",
                     IF pc \in { "prompt_in", "prompt_out" } THEN "main"
                     ELSE IF pc \in { "probe", "probing" } THEN "get_video_duration"
                     ELSE "run_ffmpeg_with_progress")
            /\ UNCHANGED <<terminate_requested, reports>>
  /\ UNCHANGED <<shellVars, probeVars, encoder_starts, proc, exit_code,
                 returncode, stderr_buf, stderr_open, emitted, polled_running,
                 renderVars>>

\* ------------------------------------------------------------ the encoder
EncoderEmit(l) ==
  /\ UNCHANGED tcVars
  /\ pc # "exited"
  /\ proc = "running"
  /\ stderr_open
  /\ emitted < MaxLines
  /\ emitted' = emitted + 1
  /\ stderr_buf' = Append(stderr_buf, l)
  /\ UNCHANGED <<pc, shellVars, probeVars, encoder_starts, proc, exit_code,
                 returncode, stderr_open, terminate_requested, polled_running,
                 renderVars, reports, exitVars, interrupt_at>>

\* the encoder closes its diagnostic stream while it keeps running
EncoderCloseStderr ==
  /\ UNCHANGED tcVars
  /\ pc # "exited"
  /\ proc = "running"
  /\ stderr_open
  /\ stderr_open' = FALSE
  /\ UNCHANGED <<pc, shellVars, probeVars, encoder_starts, proc, exit_code,
                 returncode, stderr_buf, emitted, terminate_requested,
                 polled_running, renderVars, reports, exitVars, interrupt_at>>

\* the encoder exits with code c; its end of the pipe is closed with it
EncoderExit(c) ==
  /\ UNCHANGED tcVars
  /\ pc # "exited"
  /\ proc = "running"
  /\ proc' = "exited"
  /\ exit_code' = Some(c)
  /\ stderr_open' = FALSE
  /\ UNCHANGED <<pc, shellVars, probeVars, encoder_starts, returncode,
                 stderr_buf, emitted, terminate_requested, polled_running,
                 renderVars, reports, exitVars, interrupt_at>>

\* ---------------------------------------------------------- specification
Next ==
  \/ \E s \in Inputs : PromptInput(s)
  \/ \E s \in Inputs : PromptOutput(s)
  \/ ProbeStart
  \/ \E r \in ProbeResults : ProbeFinish(r)
  \/ Popen
  \/ \E ts \in TerminalSizes : Setup(ts)
  \/ ReadLine
  \/ ReadEnd
  \/ ReadPoll
  \/ Wait
  \/ FinalRender
  \/ Report
  \/ Interrupt
  \/ \E l \in Lines : EncoderEmit(l)
  \/ EncoderCloseStderr
  \/ \E c \in ExitCodes : EncoderExit(c)

Spec == Init /\ [][Next]_vars

\* --------------------------------------- seconds_from_timecode by itself
\* the call seconds_from_timecode(str): the exception it raises ("none" if
\* it returns) and the value it returns
ApplyParser(str) ==
  IF Parses(str)
    THEN [raises |-> "none", value |-> Some(seconds_from_timecode(str))]
    ELSE [raises |-> "ValueError", value |-> None]

\* n written with w decimal digits
RECURSIVE Decimal(_, _)
Decimal(n, w) ==
  IF w = 0 THEN <<>> ELSE Decimal(n \div 10, w - 1) \o <<Digits[(n % 10) + 1]>>

\* hours, minutes, seconds and fractions as <<value, digits written>>
HourFields == { <<0, 1>>, <<0, 2>>, <<1, 1>>, <<2, 2>>, <<10, 2>>, <<123, 3>> }

MinuteFields == { <<0, 2>>, <<1, 2>>, <<59, 2>> }

SecondFields == { <<0, 2>>, <<23, 2>>, <<59, 2>> }

FractionFields == { None, Some(<<0, 1>>), Some(<<5, 1>>), Some(<<5, 2>>), Some(<<45, 2>>) }

\* the timecode H:MM:SS or H:MM:SS.fraction of the given fields
Timecode(h, m, sec, f) ==
  Decimal(h[1], h[2]) \o <<":">> \o Decimal(m[1], m[2]) \o <<":">> \o
  Decimal(sec[1], sec[2]) \o
  (IF f = None THEN <<>> ELSE <<".">> \o Decimal(f[1][1], f[1][2]))

\* every string of 5 to MaxTimecodeLen characters that time_pattern's group
\* matches from its first to its last character
MatchedStrings ==
  { str \in UNION { [1..n -> { "0", "1", ":", "." }] : n \in 5..MaxTimecodeLen } :
      TimeMatchLen(str, 1) = Len(str) }

\* seconds_from_timecode is applied to a timecode written from known fields
ParseWritten(h, m, sec, f) ==
  /\ tc_str = None
  /\ tc_str' = Some(Timecode(h, m, sec, f))
  /\ tc_expect' =
       Some((h[1] * 3600 + m[1] * 60 + sec[1]) * Unit +
            (IF f = None THEN 0 ELSE f[1][1] * Pow10(FracDigits - f[1][2])))
  /\ tc_result' = ApplyParser(Timecode(h, m, sec, f))
  /\ UNCHANGED mainVars

\* seconds_from_timecode is applied to a string the pattern matches
ParseMatched(str) ==
  /\ tc_str = None
  /\ tc_str' = Some(str)
  /\ tc_expect' = None
  /\ tc_result' = ApplyParser(str)
  /\ UNCHANGED mainVars

NextTimecode ==
  \/ \E h \in HourFields, m \in MinuteFields, sec \in SecondFields,
        f \in FractionFields : ParseWritten(h, m, sec, f)
  \/ \E str \in MatchedStrings : ParseMatched(str)

SpecTimecode == Init /\ [][NextTimecode]_vars

\* ----------------------------------------------------------- properties
Count(seq, m) == Cardinality({ i \in DOMAIN seq : seq[i] = m })

Last(seq) == seq[Len(seq)]

\* the messages of run_ffmpeg_with_progress among those printed
OrchestratorReports ==
  SelectSeq(reports, LAMBDA m : m \notin { "Process canceled.", "File does not exist." })

\* the probe ended and get_video_duration returned None
ProbeAbsent ==
  /\ probe_outcome # None
  /\ get_video_duration(probe_outcome[1]) = [raises |-> "none", value |-> None]

\* the probe ended and get_video_duration returned a number
ProbeGaveDuration ==
  /\ probe_outcome # None
  /\ get_video_duration(probe_outcome[1]).raises = "none"
  /\ get_video_duration(probe_outcome[1]).value # None

\* C1: the encoder is started only after a probe that returned a duration,
\* and a run whose probe returns None is over, in failure, with the single
\* report that the duration could not be determined, no encoder and no
\* render call.
C1_NoEncoderWithoutDuration ==
  /\ encoder_starts > 0 => ProbeGaveDuration
  /\ ProbeAbsent =>
       /\ pc = "exited"
       /\ OrchestratorReports = << "Could not determine video duration." >>
       /\ encoder_starts = 0
       /\ proc = "none"
       /\ render_calls = 0

C1_Witness ==
  /\ ProbeAbsent
  /\ probe_outcome[1].out = "blank"
  /\ pc = "exited"

\* C2: get_video_duration lets no error of the probe through: a missing
\* executable and an output that is no number both give None, never an
\* exception that ends the program.
C2_ProbeNeverRaises ==
  raised_in = "get_video_duration" =>
    uncaught \notin { "FileNotFoundError", "ValueError" }

\* C3: when the encoder has exited with a non-zero code and no interrupt
\* came, the program has reported failure exactly once, has started the
\* encoder once only, and its own exit status is not zero.
C3_EncoderFailureExitsNonZero ==
  (/\ pc = "exited"
   /\ exit_code # None
   /\ exit_code # Some(0)
   /\ interrupt_at = None) =>
     /\ Count(reports, "Conversion failed.") = 1
     /\ encoder_starts = 1
     /\ exit_status # Some(0)

\* C4: an interrupt that arrives while the orchestrator reads the
\* diagnostic stream or waits for the encoder ends the program at once: the
\* encoder was asked to terminate, the cancellation message is the last and
\* only outcome printed, the exit status is 1, and neither the final render
\* nor a success or failure report was made.
C4_InterruptCancels ==
  (interrupt_at # None /\ interrupt_at[1] \in { "read", "wait" }) =>
     /\ pc = "exited"
     /\ terminate_requested
     /\ exit_status = Some(1)
     /\ uncaught = "none"
     /\ OrchestratorReports = << "Converting.", "Process canceled by user." >>
     /\ ~final_drawn

C4_Witness ==
  /\ interrupt_at = Some("wait")
  /\ render_calls > 0
  /\ terminate_requested

\* C5: when the encoder has exited with code 0 and the program has ended
\* without an interrupt, the last render call was the one after the loop,
\* made with elapsed = total: 100%, every cell of the bar filled, whatever
\* the latest tick was; success is the last report and the exit status is 0.
C5_SuccessCompletesBar ==
  (/\ pc = "exited"
   /\ exit_code = Some(0)
   /\ interrupt_at = None) =>
     /\ final_drawn
     /\ last_render # None
     /\ last_render[1].elapsed = total_duration[1]
     /\ last_render[1].percent = 100
     /\ last_render[1].filled_length = bar_width[1]
     /\ last_render[1].dashes = 0
     /\ Last(reports) = "Conversion completed successfully!"
     /\ Count(reports, "Conversion failed.") = 0
     /\ exit_status = Some(0)

C5_Witness ==
  /\ pc = "exited"
  /\ exit_code = Some(0)
  /\ interrupt_at = None
  /\ current_sec # None
  /\ current_sec[1] < total_duration[1]
  /\ bar_width = Some(MaxBarWidth)

\* the cancel keyword in several letter cases
CancelKeywords ==
  { <<"c","a","n","c","e","l">>,
    <<"C","A","N","C","E","L">>,
    <<"C","a","n","c","e","L">> }

\* C6: once the cancel keyword, in any letter case, was the answer to the
\* input-path or the output-path prompt, the program has exited with status
\* 0 and neither the prober nor the encoder was ever started.
C6_CancelAtPromptExitsClean ==
  last_input \in CancelKeywords =>
     /\ pc = "exited"
     /\ exit_status = Some(0)
     /\ uncaught = "none"
     /\ prober_starts = 0
     /\ encoder_starts = 0

C6_Witness ==
  /\ last_input = <<"C","a","n","c","e","L">>
  /\ input_path = <<"a">>
  /\ output_path = last_input
  /\ pc = "exited"

\* C7: exit status 1 means an interrupt during the encoder run, and nothing
\* else: not a probe failure, not an encoder failure; normal completion and
\* cancellation at a prompt give status 0.
C7_StatusOneOnlyForInterrupt ==
  /\ exit_status = Some(1) =>
       (interrupt_at # None /\ interrupt_at[1] \in { "read", "wait" })
  /\ (pc = "exited" /\ reports # <<>> /\
      Last(reports) \in { "Process canceled.", "Conversion completed successfully!" })
       => exit_status = Some(0)

\* C8: in every render call the fraction is min(e/t, 1), the filled length
\* is round(width * fraction) and lies in [0, width], the unfilled length
\* is width - filled and is not negative, and the percentage lies in
\* [0, 100].
C8_RenderWithinBar ==
  last_render # None =>
    LET r == last_render[1]
        e == r.elapsed
        t == total_duration[1]
        w == bar_width[1]
    IN /\ t > 0
       /\ r.progress[1] * t = Min(e, t) * r.progress[2]
       /\ r.filled_length = RoundHalfEven(w * Min(e, t), t)
       /\ 0 <= r.filled_length /\ r.filled_length <= w
       /\ r.unfilled_length = w - r.filled_length
       /\ r.unfilled_length >= 0
       /\ 0 <= r.percent /\ r.percent <= 100

\* C9: the bar width, once set, is at least 1 and at most 50, for every
\* terminal width.
C9_BarWidthBounded ==
  bar_width # None => (1 <= bar_width[1] /\ bar_width[1] <= 50)

\* C10: the spinner index is 0 when the loop starts and is the number of
\* render calls modulo 4 ever after, the final call included; each call
\* drew the frame the calls before it had left.
C10_SpinnerCounts ==
  /\ spinner_index = None => render_calls = 0
  /\ spinner_index # None => spinner_index[1] = render_calls % 4
  /\ last_render # None => last_render[1].spinner = (render_calls - 1) % 4

C10_Witness ==
  /\ final_drawn
  /\ render_calls = 4
  /\ spinner_index = Some(0)

\* C11: reading a diagnostic line that carries no time=<timecode> token
\* changes nothing of the progress state (render call count, spinner index,
\* what is displayed, the latest tick) and does not end the run: the loop
\* goes on reading.
C11_PlainLineChangesNothing ==
  [][ (/\ pc = "read"
       /\ stderr_buf # <<>>
       /\ Head(stderr_buf) \in PlainLines
       /\ stderr_buf' = Tail(stderr_buf))
      => (/\ render_calls' = render_calls
          /\ spinner_index' = spinner_index
          /\ last_render' = last_render
          /\ current_sec' = current_sec
          /\ pc' = "read"
          /\ uncaught' = "none") ]_vars

\* both lines the encoder wrote were read and nothing was drawn
C11_Witness ==
  /\ pc = "read"
  /\ emitted = 2
  /\ stderr_buf = <<>>
  /\ render_calls = 0
  /\ spinner_index = Some(0)
  /\ last_render = None

\* C12: for every timecode H:MM:SS or H:MM:SS.fraction written from its
\* fields, seconds_from_timecode returns hours*3600 + minutes*60 + seconds
\* plus the fraction read as 0.fraction (00:01:23.45 gives 83.45, 02:00:00
\* gives 7200), and it raises on no string that time_pattern matches.
C12_TimecodeSeconds ==
  tc_str # None =>
    /\ tc_result.raises = "none"
    /\ tc_expect # None =>
         /\ tc_result.value = tc_expect
         /\ TimeMatchLen(tc_str[1], 1) = Len(tc_str[1])
    /\ tc_str = Some(<<"0","0",":","0","1",":","2","3",".","4","5">>)
         => 100 * tc_result.value[1] = 8345 * Unit
    /\ tc_str = Some(<<"0","2",":","0","0",":","0","0">>)
         => tc_result.value[1] = 7200 * Unit
    /\ tc_str = Some(<<"0",":","0","0",":","0","0",".","5">>)
         => 10 * tc_result.value[1] = 5 * Unit

C12_Witness ==
  /\ tc_str = Some(<<"0","0",":","0","1",":","2","3",".","4","5">>)
  /\ tc_expect # None
  /\ tc_result.raises = "none"
  /\ 100 * tc_result.value[1] = 8345 * Unit

\* the answers that are the cancel token
CancelAnswers == CancelKeywords \cup { <<" ","c","a","n","c","e","l"," ">> }

\* C13: the input-path prompt is left only for the output-path prompt, by a
\* path to an existing file, or for the exit, by the cancel token (or an
\* interrupt): an invalid path keeps the program at the prompt.  The
\* orchestrator is invoked at most once, always with an input path that
\* exists, never after a cancel, and it has been invoked once whenever the
\* program is past the prompts.
C13_PromptLoop ==
  /\ [](/\ runs <= 1
        /\ runs = 1 => (input_path \in ExistingFiles /\ output_path # Unset)
        /\ (pc \notin { "prompt_in", "prompt_out", "exited" }) => runs = 1
        /\ (reports # <<>> /\ Last(reports) = "Process canceled.") => runs = 0
        /\ last_input \in CancelAnswers => runs = 0)
  /\ [][ (pc = "prompt_in" /\ pc' # "prompt_in") =>
           \/ pc' = "prompt_out" /\ input_path' \in ExistingFiles
           \/ pc' = "exited" /\ last_input' \in CancelAnswers
           \/ pc' = "exited" /\ interrupt_at' # None ]_vars
  /\ [][ (pc = "prompt_in" /\ prompts' = prompts + 1) =>
           (pc' = "prompt_in" /\ input_path' \notin ExistingFiles) ]_vars

\* two invalid paths, then a valid one, and the orchestrator has run
C13_Witness ==
  /\ prompts = 2
  /\ Count(reports, "File does not exist.") = 2
  /\ runs = 1
  /\ input_path = <<"a">>
  /\ pc = "exited"

\* C14 as stated: the orchestrator is never invoked with an empty output
\* path.
C14_NoEmptyOutput == runs >= 1 => output_path # <<>>

\* C14 as amended: the output-path prompt accepts every answer but the
\* cancel token, the empty one included; the orchestrator is never invoked
\* with an output path that is the cancel keyword or that begins or ends
\* with white space.
C14_OutputNotCancel ==
  runs >= 1 =>
    /\ output_path \notin CancelKeywords
    /\ output_path # <<>> =>
         (Head(output_path) # " " /\ Last(output_path) # " ")
    /\ last_input \in { <<>>, <<"a">>, <<"b">> } => output_path = last_input

\* the orchestrator ran with an empty output path
C14_Witness ==
  /\ runs = 1
  /\ output_path = <<>>
  /\ last_input = <<>>
  /\ pc = "exited"
  /\ encoder_starts = 1

\* a step that is a call of draw_progress after an earlier call
RenderAgain == render_calls' = render_calls + 1 /\ last_render # None

\* the fraction drawn by render record b is not below that drawn by a
FractionNotBelow(b, a) ==
  IF b.progress[2] = a.progress[2] THEN b.progress[1] >= a.progress[1]
  ELSE IF b.progress[1] = b.progress[2] THEN a.progress[1] <= a.progress[2]
  ELSE b.progress[1] * a.progress[2] >= a.progress[1] * b.progress[2]

\* C15 as stated: from one render call to the next the elapsed seconds, the
\* fraction and the filled length never decrease.
C15_ElapsedNeverDecreases ==
  [][ RenderAgain =>
        /\ last_render'[1].elapsed >= last_render[1].elapsed
        /\ FractionNotBelow(last_render'[1], last_render[1])
        /\ last_render'[1].filled_length >= last_render[1].filled_length ]_vars

\* C15 as amended: the renderer draws what it is given.  From one render
\* call to the next the fraction, the percentage and the number of filled
\* cells drawn do not decrease when the later elapsed value is not below the
\* earlier one, and they never decrease at the final call (elapsed = total).
C15_DisplayFollowsTicks ==
  [][ (/\ RenderAgain
       /\ \/ last_render'[1].elapsed >= last_render[1].elapsed
          \/ final_drawn') =>
        /\ FractionNotBelow(last_render'[1], last_render[1])
        /\ last_render'[1].percent >= last_render[1].percent
        /\ last_render'[1].hashes >= last_render[1].hashes ]_vars

\* a tick beyond the total was drawn, then the final call with the total
C15_Witness ==
  /\ final_drawn
  /\ render_calls = 3
  /\ current_sec # None
  /\ current_sec[1] > total_duration[1]
  /\ last_render[1].elapsed = total_duration[1]
  /\ last_render[1].percent = 100

\* C16: the read loop is left (other than by an interrupt) only on an
\* empty read that finds the encoder exited; while the encoder runs the
\* program stays in the loop.  So whenever the program waits, draws the
\* final bar or has reported success or failure, the encoder has exited and
\* its exit code is known.
C16_LoopEndsAfterExit ==
  /\ []( (\/ pc \in { "wait", "final", "report" }
          \/ final_drawn
          \/ Count(reports, "Conversion completed successfully!") > 0
          \/ Count(reports, "Conversion failed.") > 0)
         => (proc = "exited" /\ returncode # None /\ returncode = exit_code) )
  /\ [][ (pc = "read" /\ pc' = "wait") =>
           (stderr_buf = <<>> /\ ~stderr_open /\ proc = "exited") ]_vars
  /\ [][ (pc = "read" /\ proc = "running") =>
           (pc' = "read" \/ interrupt_at' # None) ]_vars

\* an empty read found the encoder running, and the run ended normally later
C16_Witness ==
  /\ polled_running
  /\ final_drawn
  /\ pc = "exited"
  /\ proc = "exited"
  /\ interrupt_at = None

\* the state of the orchestrator's state machine
OrchState ==
  IF runs = 0 THEN "Idle"
  ELSE IF pc \in { "probe", "probing" } THEN "Probing"
  ELSE IF pc \in { "popen", "setup", "read", "wait", "final", "report" } THEN "Running"
  ELSE IF uncaught # "none" \/ OrchestratorReports = <<>> THEN "Crashed"
  ELSE IF Last(OrchestratorReports) = "Conversion completed successfully!" THEN "Succeeded"
  ELSE IF Last(OrchestratorReports) = "Process canceled by user." THEN "Canceled"
  ELSE IF Last(OrchestratorReports) \in
            { "Could not determine video duration.", "Conversion failed." } THEN "Failed"
  ELSE "Crashed"

OrchRank ==
  CASE OrchState = "Idle" -> 0
    [] OrchState = "Probing" -> 1
    [] OrchState = "Running" -> 2
    [] OTHER -> 3

\* C17: once the probe has returned, a run that has ended has ended in
\* exactly one of Succeeded, Failed and Canceled; the states are visited in
\* the order Idle, Probing, Running, terminal, and a terminal state is never
\* left.
C17_RunEndsInTerminalState ==
  /\ []( (runs = 1 /\ pc = "exited" /\ probe_outcome # None)
           => OrchState \in { "Succeeded", "Failed", "Canceled" } )
  /\ [][ OrchRank' >= OrchRank ]_vars
  /\ [][ OrchRank = 3 => OrchState' = OrchState ]_vars

\* C18: in every run that ended with no interrupt after the encoder had
\* exited, whatever the exit code, the last render call was the final one,
\* with elapsed = total, 100% and a full bar; it is on the screen when the
\* failure (or success) message is printed.
C18_FinalRenderBeforeReport ==
  /\ pc = "report" => (final_drawn /\ last_render[1].elapsed = total_duration[1])
  /\ (\/ Count(reports, "Conversion failed.") > 0
      \/ (pc = "exited" /\ exit_code # None /\ interrupt_at = None)) =>
       /\ final_drawn
       /\ render_calls >= 1
       /\ last_render[1].elapsed = total_duration[1]
       /\ last_render[1].progress[1] = last_render[1].progress[2]
       /\ last_render[1].percent = 100
       /\ last_render[1].unfilled_length = 0

\* a failed run whose latest tick was short of the total
C18_Witness ==
  /\ pc = "exited"
  /\ exit_code = Some(2)
  /\ Last(reports) = "Conversion failed."
  /\ current_sec # None
  /\ current_sec[1] < total_duration[1]
  /\ last_render[1].percent = 100

\* C19: the encoder is started at most once, and only with a total duration
\* that is a number greater than zero, which never changes afterwards; a
\* probe result of zero or below ends the run like an absent one.
C19_PositiveTotal ==
  /\ []( /\ encoder_starts <= 1
         /\ encoder_starts > 0 => (total_duration # None /\ total_duration[1] > 0)
         /\ last_render # None => total_duration[1] > 0
         /\ (probe_outcome # None /\ probe_outcome[1].out = "number"
               /\ probe_outcome[1].val <= 0)
              => (/\ pc = "exited"
                  /\ encoder_starts = 0
                  /\ OrchestratorReports = << "Could not determine video duration." >>) )
  /\ [][ encoder_starts > 0 => total_duration' = total_duration ]_vars

\* a bar was drawn for a started encoder and a total of 60 seconds
C19_Witness ==
  /\ encoder_starts = 1
  /\ render_calls > 0
  /\ total_duration = Some(60 * Unit)

\* C20: the program never exits while the encoder it started is running
\* unless it has asked it to terminate.
C20_NoEncoderLeak ==
  (pc = "exited" /\ proc = "running") => terminate_requested

====
